---- MODULE Spec2Model ----
(***************************************************************************)
(* A model of the minitrace LocalSpan / Span reproduction worker           *)
(* (src/src/lib.rs).                                                       *)
(*                                                                         *)
(* One worker instance is modelled: the start event, then fetch events     *)
(* handled one after the other on the single-threaded event loop.  Each    *)
(* fetch runs `main`, which awaits `func_with_trace` and hands a flush     *)
(* closure to ctx.wait_until; the flush task runs once the handler task    *)
(* has returned.  Every future awaited by the handler is ready on its      *)
(* first poll, so the handler never suspends.                              *)
(*                                                                         *)
(* The tracing library (minitrace) and the host (worker) are not part of   *)
(* the repository's sources; the operators of the sections "tracing        *)
(* library" and "host" model them after the specification's data model     *)
(* and after the output recorded in src/src/lib.rs:73-123.                 *)
(*                                                                         *)
(* The source has no failing statement.  FaultSpec adds the two failures   *)
(* the specification speaks of: a panic raised while the traced chain      *)
(* runs, and a failing log call of the flush task.                         *)
(*                                                                         *)
(* Not modelled: timestamps and durations of a span record.                *)
(***************************************************************************)
EXTENDS Integers, Sequences, FiniteSets, TLC

VARIABLES
  instance,      \* "instantiated" | "started" | "trapped" (aborted by a panic)
  panic_hook,    \* the process-wide panic hook
  hook_installs, \* how many times std::panic::set_hook was called
  id_gen,        \* the thread-local span id generator [prefix, suffix]
  span_stack,    \* the thread-local LocalSpanStack
  nreq,          \* fetch events delivered so far
  req,           \* the request of the fetch being handled
  pc,            \* position of the handler task (main / func_with_trace)
  fpc,           \* position of the flush task
  collector,     \* the LocalCollector of this request
  collector_at,  \* where that value lives: "nowhere" | "main" | "closure" | "consumed"
  held,          \* per span name: the guard or Span object alive for it
  local_spans,   \* flush task local: result of collector.collect()
  span_records,  \* flush task local: result of to_span_records
  console,       \* console.log lines, oldest first
  responses,     \* per fetch: the request and the value main returned
  phase,         \* per span name: lifecycle position in this request
  collects       \* collect() calls made for this request

vars == << instance, panic_hook, hook_installs, id_gen, span_stack, nreq, req,
           pc, fpc, collector, collector_at, held, local_spans, span_records, console,
           responses, phase, collects >>

----------------------------------------------------------------------------
(* Bounds of the model *)

\* fetch events delivered to the worker instance
MaxRequests == 3
\* the id generator's random 32-bit prefix is drawn from 0..MaxPrefix
MaxPrefix == 1

\* request contents
Bodies == {"GET /", "POST /traced"}

\* Option values: None, or Some(x) holding x
None == << >>
Some(x) == << x >>
Get(opt) == opt[1]

----------------------------------------------------------------------------
(* Identifiers.  A SpanId is the 64-bit value (prefix << 32) | suffix; it   *)
(* is kept as the pair <<prefix, suffix>>, so SpanId(n) for n < 2^32 is     *)
(* <<0, n>>.  The recorded run has prefix 0xbad0bea7 and suffixes 1, 2, 3.  *)

SpanId(n) == <<0, n>>
DefaultSpanId == SpanId(0)

\* SpanContext::new(TraceId(1), SpanId(1))
CtxTraceId == 1
CtxSpanId == 1

----------------------------------------------------------------------------
(* The program text: span names, how each is entered, statement order *)

SpanNames == {"root", "func_with_trace", "child", "in_span_async", "nested_wrapped"}

EntryKindAllLocal(name) == "LocalSpan"

\* Which constructor enters the span of that name.  #[trace] on an async fn
\* wraps the body with in_span(Span::enter_with_local_parent(name)).
EntryKind(name) ==
  CASE name = "root" -> "LocalSpan"
    [] name = "child" -> "LocalSpan"
    [] name = "nested_wrapped" -> "LocalSpan"
    [] name = "in_span_async" -> "Span"
    [] name = "func_with_trace" -> "Span"

FuncWithTraceOrderChildScoped ==
  << "enter_child", "make_in_span", "await_in_span", "exit_child",
     "enter_nested", "await_nested", "exit_nested", "return_fwt" >>

\* Statements of func_with_trace in execution order; _child lives to the end
\* of the body, the nested _guard to the end of its block.
FuncWithTraceOrder ==
  << "enter_child", "make_in_span", "await_in_span", "enter_nested",
     "await_nested", "exit_nested", "exit_child", "return_fwt" >>

MainOrderRootUnscoped ==
  << "log_started", "collector_start", "enter_root", "call_fwt" >>
  \o FuncWithTraceOrder
  \o << "wait_until", "exit_root", "respond" >>

\* Statements of main in execution order, func_with_trace inlined at its await.
MainOrder ==
  << "log_started", "collector_start", "enter_root", "call_fwt" >>
  \o FuncWithTraceOrder
  \o << "exit_root", "wait_until", "respond" >>

FlushOrderDumpFirst == << "log_records", "collect", "convert", "flush_log" >>

\* Statements of the closure given to ctx.wait_until.
FlushOrder == << "flush_log", "collect", "convert", "log_records" >>

IndexOf(seq, x) == CHOOSE i \in 1..Len(seq) : seq[i] = x

\* The label after label p in order seq; "done" after the last.
After(seq, p) ==
  LET i == IndexOf(seq, p) IN IF i = Len(seq) THEN "done" ELSE seq[i + 1]

SpanContextWrongParent == [trace_id |-> CtxTraceId, span_id |-> SpanId(CtxSpanId + 1)]

\* let span_context = SpanContext::new(TraceId(1), SpanId(1));
FlushSpanContext == [trace_id |-> CtxTraceId, span_id |-> SpanId(CtxSpanId)]

MainResponseEcho(request) == [status |-> 200, body |-> request]

\* Response::ok("Hello, World!")
MainResponse(request) == [status |-> 200, body |-> "Hello, World!"]

----------------------------------------------------------------------------
(* Tracing library: thread-local id generator, LocalSpanStack, span lines *)

\* capacity of the span stack (span lines) and of one span queue
SpanStackCapacity == 4096
SpanQueueCapacity == 4096

\* SpanId::next_id: suffix is incremented first, the prefix is kept.  (The
\* suffix wraps at 2^32, far above what MaxRequests fetches allocate.)
NextId(gen) ==
  [gen |-> [prefix |-> gen.prefix, suffix |-> gen.suffix + 1],
   id  |-> << gen.prefix, gen.suffix + 1 >>]

EmptyStack == [span_lines |-> << >>, next_epoch |-> 0]

\* LocalSpanStack::register_span_line(collect_token)
RegisterSpanLine(stack, token) ==
  IF Len(stack.span_lines) >= SpanStackCapacity
  THEN [stack |-> stack, handle |-> None]
  ELSE [stack |-> [span_lines |-> Append(stack.span_lines,
                                    [epoch |-> stack.next_epoch,
                                     spans |-> << >>,
                                     next_parent_id |-> None,
                                     collect_token |-> token]),
                   next_epoch |-> stack.next_epoch + 1],
        handle |-> Some([span_line_epoch |-> stack.next_epoch])]

\* LocalSpanStack::current_collect_token: the token of the top span line
CurrentCollectToken(stack) ==
  IF Len(stack.span_lines) = 0 THEN None
  ELSE stack.span_lines[Len(stack.span_lines)].collect_token

\* SpanQueue::start_span on the top span line: the new span's parent is the
\* line's next_parent_id (SpanId::default() when there is none), and the new
\* span becomes the next parent.
EnterSpan(stack, gen, name) ==
  LET n == Len(stack.span_lines) IN
  IF n = 0 \/ Len(stack.span_lines[n].spans) >= SpanQueueCapacity
  THEN [stack |-> stack, gen |-> gen, handle |-> None]
  ELSE
    LET line == stack.span_lines[n]
        nx   == NextId(gen)
        raw  == [id |-> nx.id,
                 parent_id |-> IF line.next_parent_id = None
                               THEN DefaultSpanId ELSE Get(line.next_parent_id),
                 name |-> name,
                 ended |-> FALSE]
        line2 == [line EXCEPT !.spans = Append(@, raw),
                              !.next_parent_id = Some(nx.id)]
    IN [stack |-> [stack EXCEPT !.span_lines[n] = line2],
        gen |-> nx.gen,
        handle |-> Some([span_line_epoch |-> line.epoch,
                         index |-> Len(line.spans) + 1])]

\* LocalSpanStack::exit_span / SpanQueue::finish_span: the span ends and its
\* parent becomes the next parent again (none for SpanId::default()).
ExitSpan(stack, handle) ==
  LET n == Len(stack.span_lines) IN
  IF handle = None \/ n = 0 THEN stack
  ELSE IF stack.span_lines[n].epoch # Get(handle).span_line_epoch THEN stack
  ELSE
    LET line == stack.span_lines[n]
        i    == Get(handle).index
        raw  == line.spans[i]
        line2 == [line EXCEPT !.spans[i].ended = TRUE,
                              !.next_parent_id =
                                 IF raw.parent_id = DefaultSpanId
                                 THEN None ELSE Some(raw.parent_id)]
    IN [stack EXCEPT !.span_lines[n] = line2]

\* LocalSpanStack::unregister_and_collect(handle): pops the top span line
\* and yields its spans when the handle's epoch is that line's.
UnregisterAndCollect(stack, handle) ==
  LET n == Len(stack.span_lines) IN
  IF n = 0 THEN [stack |-> stack, spans |-> << >>]
  ELSE
    LET line == stack.span_lines[n]
        rest == [stack EXCEPT !.span_lines = SubSeq(@, 1, n - 1)]
    IN IF line.epoch = handle.span_line_epoch
       THEN [stack |-> rest, spans |-> line.spans]
       ELSE [stack |-> rest, spans |-> << >>]

\* LocalCollector::start(): a span line with no collect token
LocalCollectorStart(stack) ==
  LET r == RegisterSpanLine(stack, None) IN
  [stack |-> r.stack, collector |-> [inner |-> r.handle]]

CollectKeepsSpans(stack, c) ==
  IF c.inner = None
  THEN [stack |-> stack, collector |-> c, spans |-> << >>]
  ELSE [stack |-> stack, collector |-> c,
        spans |-> UnregisterAndCollect(stack, Get(c.inner)).spans]

\* LocalCollector::collect(): takes the collector's inner handle and drains
\* its span line; with the handle already taken it yields nothing.
Collect(stack, c) ==
  IF c.inner = None
  THEN [stack |-> stack, collector |-> c, spans |-> << >>]
  ELSE LET u == UnregisterAndCollect(stack, Get(c.inner))
       IN [stack |-> u.stack, collector |-> [inner |-> None], spans |-> u.spans]

\* Span::enter_with_local_parent(name): a real span only when the top span
\* line carries a collect token, a no-op span otherwise.
SpanEnterWithLocalParent(stack, gen, name) ==
  IF CurrentCollectToken(stack) = None
  THEN [gen |-> gen, span |-> [inner |-> None]]
  ELSE LET nx == NextId(gen)
       IN [gen |-> nx.gen,
           span |-> [inner |-> Some([id |-> nx.id, name |-> name])]]

\* Span::set_local_parent(): a no-op span attaches nothing; a real span
\* registers a span line carrying its token.
SetLocalParent(stack, span) ==
  IF span.inner = None
  THEN [stack |-> stack, guard |-> None]
  ELSE LET r == RegisterSpanLine(stack, Some([parent_id |-> Get(span.inner).id]))
       IN [stack |-> r.stack, guard |-> r.handle]

\* Drop of the LocalParentGuard taken by in_span's poll
DropLocalParentGuard(stack, guard) ==
  IF guard = None THEN stack ELSE UnregisterAndCollect(stack, Get(guard)).stack

\* LocalSpans::to_span_records(parent): one record per collected span, in
\* order; the context's ids stand in for the trace id and for a missing parent.
RECURSIVE ToSpanRecords(_, _)
ToSpanRecords(spans, ctx) ==
  IF spans = << >> THEN << >>
  ELSE LET raw == Head(spans) IN
       << [trace_id |-> ctx.trace_id,
           span_id |-> raw.id,
           parent_id |-> IF raw.parent_id = DefaultSpanId
                         THEN ctx.span_id ELSE raw.parent_id,
           name |-> raw.name,
           properties |-> << >>,
           events |-> << >>] >>
       \o ToSpanRecords(Tail(spans), ctx)


----------------------------------------------------------------------------
(* Host: one worker instance, a single-threaded event loop *)

\* A task spawned by ctx.wait_until is polled only after the task that
\* spawned it has returned.
FlushRunnable == pc = "done"

\* A fetch event is delivered when no task of an earlier fetch is left.
FetchDeliverable ==
  /\ instance = "started"
  /\ pc \in {"idle", "done"}
  /\ fpc \in {"idle", "done", "failed"}

----------------------------------------------------------------------------
(* Entering, attaching and releasing the span of a given name *)

\* LocalSpan::enter_with_local_parent(name) or Span::enter_with_local_parent(name)
EnterOp(stack, gen, name) ==
  IF EntryKind(name) = "LocalSpan"
  THEN LET e == EnterSpan(stack, gen, name)
       IN [stack |-> e.stack, gen |-> e.gen,
           obj |-> [kind |-> "LocalSpan", handle |-> e.handle,
                    inner |-> None, guard |-> None]]
  ELSE LET sp == SpanEnterWithLocalParent(stack, gen, name)
       IN [stack |-> stack, gen |-> sp.gen,
           obj |-> [kind |-> "Span", handle |-> None,
                    inner |-> sp.span.inner, guard |-> None]]

\* The poll of an in_span future sets its span as the local parent.
AttachOp(stack, obj) ==
  IF obj.kind = "Span"
  THEN LET a == SetLocalParent(stack, [inner |-> obj.inner])
       IN [stack |-> a.stack, obj |-> [obj EXCEPT !.guard = a.guard]]
  ELSE [stack |-> stack, obj |-> obj]

\* Drop of a LocalSpan guard, or completion of an in_span future.
ReleaseOp(stack, obj) ==
  IF obj.kind = "LocalSpan"
  THEN ExitSpan(stack, obj.handle)
  ELSE DropLocalParentGuard(stack, obj.guard)

----------------------------------------------------------------------------
(* Initial state *)

Init ==
  /\ instance = "instantiated"
  /\ panic_hook = "default"
  /\ hook_installs = 0
  /\ \E p \in 0..MaxPrefix : id_gen = [prefix |-> p, suffix |-> 0]
  /\ span_stack = EmptyStack
  /\ nreq = 0
  /\ req = ""
  /\ pc = "idle"
  /\ fpc = "idle"
  /\ collector = [inner |-> None]
  /\ collector_at = "nowhere"
  /\ held = [n \in SpanNames |-> None]
  /\ local_spans = << >>
  /\ span_records = << >>
  /\ console = << >>
  /\ responses = << >>
  /\ phase = [n \in SpanNames |-> "Pending"]
  /\ collects = 0

----------------------------------------------------------------------------
(* The start event *)

\* #[event(start)] fn start(): std::panic::set_hook(console_error_panic_hook::hook)
StartEventNoHook ==
  /\ instance = "instantiated"
  /\ instance' = "started"
  /\ UNCHANGED << panic_hook, hook_installs, id_gen, span_stack, nreq, req, pc,
                  fpc, collector, collector_at, held, local_spans,
                  span_records, console, responses, phase, collects >>

StartEvent ==
  /\ instance = "instantiated"
  /\ instance' = "started"
  /\ panic_hook' = "console_error_panic_hook::hook"
  /\ hook_installs' = hook_installs + 1
  /\ UNCHANGED << id_gen, span_stack, nreq, req, pc, fpc, collector,
                  collector_at, held, local_spans, span_records, console,
                  responses, phase, collects >>

----------------------------------------------------------------------------
(* The fetch handler: main and func_with_trace *)

\* #[event(fetch)]: a fetch event starts main with fresh locals.
Fetch ==
  /\ FetchDeliverable
  /\ nreq < MaxRequests
  /\ \E body \in Bodies : req' = body
  /\ nreq' = nreq + 1
  /\ pc' = Head(MainOrder)
  /\ fpc' = "idle"
  /\ collector' = [inner |-> None]
  /\ collector_at' = "nowhere"
  /\ held' = [n \in SpanNames |-> None]
  /\ local_spans' = << >>
  /\ span_records' = << >>
  /\ phase' = [n \in SpanNames |-> "Pending"]
  /\ collects' = 0
  /\ UNCHANGED << instance, panic_hook, hook_installs, id_gen, span_stack,
                  console, responses >>

\* log("started");
LogStarted ==
  /\ pc = "log_started"
  /\ console' = Append(console, [text |-> "started", records |-> << >>])
  /\ pc' = After(MainOrder, pc)
  /\ UNCHANGED << instance, panic_hook, hook_installs, id_gen, span_stack,
                  nreq, req, fpc, collector, collector_at, held, local_spans,
                  span_records, responses, phase, collects >>

\* let collector = LocalCollector::start();
CollectorStart ==
  /\ pc = "collector_start"
  /\ LET r == LocalCollectorStart(span_stack) IN
       /\ span_stack' = r.stack
       /\ collector' = r.collector
  /\ collector_at' = "main"
  /\ pc' = After(MainOrder, pc)
  /\ UNCHANGED << instance, panic_hook, hook_installs, id_gen, nreq, req, fpc,
                  held, local_spans, span_records, console, responses, phase,
                  collects >>

\* The span of that name is entered at label `at`.
EnterAt(at, name) ==
  /\ pc = at
  /\ LET e == EnterOp(span_stack, id_gen, name) IN
       /\ span_stack' = e.stack
       /\ id_gen' = e.gen
       /\ held' = [held EXCEPT ![name] = Some(e.obj)]
  /\ phase' = [phase EXCEPT ![name] = "Entered"]
  /\ pc' = After(MainOrder, pc)
  /\ UNCHANGED << instance, panic_hook, hook_installs, nreq, req, fpc,
                  collector, collector_at, local_spans, span_records, console,
                  responses, collects >>

\* The span of that name is released at label `at`.
ExitAt(at, name) ==
  /\ pc = at
  /\ held[name] # None
  /\ span_stack' = ReleaseOp(span_stack, Get(held[name]))
  /\ held' = [held EXCEPT ![name] = None]
  /\ phase' = [phase EXCEPT ![name] = "Exited"]
  /\ pc' = After(MainOrder, pc)
  /\ UNCHANGED << instance, panic_hook, hook_installs, id_gen, nreq, req, fpc,
                  collector, collector_at, local_spans, span_records, console,
                  responses, collects >>

\* let _guard = LocalSpan::enter_with_local_parent("root");
EnterRoot == EnterAt("enter_root", "root")

\* func_with_trace().await: the #[trace] wrapper enters its span and the
\* first poll of its in_span future attaches it.
CallFuncWithTrace ==
  /\ pc = "call_fwt"
  /\ LET e == EnterOp(span_stack, id_gen, "func_with_trace")
         a == AttachOp(e.stack, e.obj)
     IN /\ span_stack' = a.stack
        /\ id_gen' = e.gen
        /\ held' = [held EXCEPT !["func_with_trace"] = Some(a.obj)]
  /\ phase' = [phase EXCEPT !["func_with_trace"] = "Entered"]
  /\ pc' = After(MainOrder, pc)
  /\ UNCHANGED << instance, panic_hook, hook_installs, nreq, req, fpc,
                  collector, collector_at, local_spans, span_records, console,
                  responses, collects >>

\* let _child = LocalSpan::enter_with_local_parent("child");
EnterChild == EnterAt("enter_child", "child")

\* call_nested_future_ext().in_span(Span::enter_with_local_parent("in_span_async"))
MakeInSpan == EnterAt("make_in_span", "in_span_async")

\* .await of the in_span future: the poll attaches the span, the inner future
\* is ready at once, the guard and the span are dropped.
AwaitInSpan ==
  /\ pc = "await_in_span"
  /\ held["in_span_async"] # None
  /\ LET a == AttachOp(span_stack, Get(held["in_span_async"]))
     IN span_stack' = ReleaseOp(a.stack, a.obj)
  /\ held' = [held EXCEPT !["in_span_async"] = None]
  /\ phase' = [phase EXCEPT !["in_span_async"] = "Exited"]
  /\ pc' = After(MainOrder, pc)
  /\ UNCHANGED << instance, panic_hook, hook_installs, id_gen, nreq, req, fpc,
                  collector, collector_at, local_spans, span_records, console,
                  responses, collects >>

\* let _guard = LocalSpan::enter_with_local_parent("nested_wrapped");
EnterNestedWrapped == EnterAt("enter_nested", "nested_wrapped")

\* nested_wrapped().await: ready at once, nothing changes
AwaitNestedWrapped ==
  /\ pc = "await_nested"
  /\ pc' = After(MainOrder, pc)
  /\ UNCHANGED << instance, panic_hook, hook_installs, id_gen, span_stack,
                  nreq, req, fpc, collector, collector_at, held, local_spans,
                  span_records, console, responses, phase, collects >>

\* end of the inner block of func_with_trace: _guard is dropped
ExitNestedWrapped == ExitAt("exit_nested", "nested_wrapped")

\* end of the body of func_with_trace: _child is dropped
ExitChild == ExitAt("exit_child", "child")

\* the in_span future of the #[trace] wrapper completes
ReturnFuncWithTrace == ExitAt("return_fwt", "func_with_trace")

\* end of the block around func_with_trace().await: _guard is dropped
ExitRoot == ExitAt("exit_root", "root")

\* ctx.wait_until(async move { ... }): the closure takes the collector and
\* is queued as a task.
WaitUntil ==
  /\ pc = "wait_until"
  /\ collector_at' = "closure"
  /\ fpc' = Head(FlushOrder)
  /\ pc' = After(MainOrder, pc)
  /\ UNCHANGED << instance, panic_hook, hook_installs, id_gen, span_stack,
                  nreq, req, collector, held, local_spans, span_records,
                  console, responses, phase, collects >>

\* Response::ok("Hello, World!")
Respond ==
  /\ pc = "respond"
  /\ responses' = Append(responses, [request |-> req, response |-> MainResponse(req)])
  /\ pc' = After(MainOrder, pc)
  /\ UNCHANGED << instance, panic_hook, hook_installs, id_gen, span_stack,
                  nreq, req, fpc, collector, collector_at, held, local_spans,
                  span_records, console, phase, collects >>

----------------------------------------------------------------------------
(* The flush task *)

\* log("flushing in background");
FlushLog ==
  /\ FlushRunnable
  /\ fpc = "flush_log"
  /\ console' = Append(console, [text |-> "flushing in background", records |-> << >>])
  /\ fpc' = After(FlushOrder, fpc)
  /\ UNCHANGED << instance, panic_hook, hook_installs, id_gen, span_stack,
                  nreq, req, pc, collector, collector_at, held, local_spans,
                  span_records, responses, phase, collects >>

\* let local_spans = collector.collect();
FlushCollect ==
  /\ FlushRunnable
  /\ fpc = "collect"
  /\ LET c == Collect(span_stack, collector) IN
       /\ span_stack' = c.stack
       /\ collector' = c.collector
       /\ local_spans' = c.spans
  /\ collector_at' = "consumed"
  /\ collects' = collects + 1
  /\ fpc' = After(FlushOrder, fpc)
  /\ UNCHANGED << instance, panic_hook, hook_installs, id_gen, nreq, req, pc,
                  held, span_records, console, responses, phase >>

RecordNames(records) == {records[i].name : i \in 1..Len(records)}

\* let span_records = local_spans.to_span_records(span_context);
FlushConvert ==
  /\ FlushRunnable
  /\ fpc = "convert"
  /\ span_records' = ToSpanRecords(local_spans, FlushSpanContext)
  /\ phase' = [n \in SpanNames |->
                 IF n \in RecordNames(span_records') THEN "Recorded"
                 ELSE IF phase[n] = "Exited" THEN "Dropped" ELSE phase[n]]
  /\ fpc' = After(FlushOrder, fpc)
  /\ UNCHANGED << instance, panic_hook, hook_installs, id_gen, span_stack,
                  nreq, req, pc, collector, collector_at, held, local_spans,
                  console, responses, collects >>

\* log(format!("span_records: {:#?}", span_records).as_str());
FlushLogRecords ==
  /\ FlushRunnable
  /\ fpc = "log_records"
  /\ console' = Append(console, [text |-> "span_records", records |-> span_records])
  /\ fpc' = After(FlushOrder, fpc)
  /\ UNCHANGED << instance, panic_hook, hook_installs, id_gen, span_stack,
                  nreq, req, pc, collector, collector_at, held, local_spans,
                  span_records, responses, phase, collects >>

----------------------------------------------------------------------------
(* Failures on the tracing path *)

\* A panic raised by a call of the traced chain, while root's guard is held
\* (func_with_trace().await and what it runs).  The panic hook, when
\* installed, writes one line to the console; the instance then aborts:
\* main is left where it stands, nothing is dropped, no value is returned.
Panic ==
  /\ pc \notin {"idle", "done", "panicked"}
  /\ held["root"] # None
  /\ console' = IF panic_hook = "console_error_panic_hook::hook"
                THEN Append(console, [text |-> "panic", records |-> << >>])
                ELSE console
  /\ pc' = "panicked"
  /\ instance' = "trapped"
  /\ UNCHANGED << panic_hook, hook_installs, id_gen, span_stack, nreq, req,
                  fpc, collector, collector_at, held, local_spans,
                  span_records, responses, phase, collects >>

\* A log call of the flush task fails: nothing is written and the task ends
\* there; nobody is told.
FlushLogFails ==
  /\ FlushRunnable
  /\ fpc \in {"flush_log", "log_records"}
  /\ fpc' = "failed"
  /\ UNCHANGED << instance, panic_hook, hook_installs, id_gen, span_stack,
                  nreq, req, pc, collector, collector_at, held, local_spans,
                  span_records, console, responses, phase, collects >>

----------------------------------------------------------------------------
(* Specifications *)

Handler ==
  \/ LogStarted
  \/ CollectorStart
  \/ EnterRoot
  \/ CallFuncWithTrace
  \/ EnterChild
  \/ MakeInSpan
  \/ AwaitInSpan
  \/ EnterNestedWrapped
  \/ AwaitNestedWrapped
  \/ ExitNestedWrapped
  \/ ExitChild
  \/ ReturnFuncWithTrace
  \/ ExitRoot
  \/ WaitUntil
  \/ Respond

Flush ==
  \/ FlushLog
  \/ FlushCollect
  \/ FlushConvert
  \/ FlushLogRecords

Next == StartEvent \/ Fetch \/ Handler \/ Flush

Spec == Init /\ [][Next]_vars

\* The event loop runs every task it holds: a started handler runs to its
\* return and a queued flush task runs to its end.
FairSpec == Spec /\ WF_vars(Handler) /\ WF_vars(Flush)

\* The program with the failures of the tracing path allowed.
FaultNext == Next \/ Panic \/ FlushLogFails

FaultSpec == Init /\ [][FaultNext]_vars


----------------------------------------------------------------------------
(* Views used by the properties *)

\* positions of the console lines that dump span records
DumpLines == {i \in 1..Len(console) : console[i].text = "span_records"}

\* the records named `name` in a sequence of span records
Named(records, name) == {i \in 1..Len(records) : records[i].name = name}

\* the one record named `name` of a sequence that holds exactly one
Rec(records, name) == records[CHOOSE i \in Named(records, name) : TRUE]

\* the spans entered with LocalSpan::enter_with_local_parent
MechanismASpans == {"root", "child", "nested_wrapped"}

\* the flush task of this request has converted its spans
Converted == fpc \in {"log_records", "done"} /\ collector_at = "consumed"

----------------------------------------------------------------------------
(* C1: every span_records dump of the fixed scenario holds exactly three   *)
(* records, one named root, one child and one nested_wrapped; none is      *)
(* named in_span_async or func_with_trace.                                 *)
C1_ExactRecordNames ==
  \A i \in DumpLines :
    LET r == console[i].records IN
      /\ Len(r) = 3
      /\ \A n \in MechanismASpans : Cardinality(Named(r, n)) = 1
      /\ Named(r, "in_span_async") = {}
      /\ Named(r, "func_with_trace") = {}

C1_Witness ==
  /\ Cardinality(DumpLines) = 2
  /\ fpc = "done"
  /\ RecordNames(span_records) = MechanismASpans

(* C2: in every dump, child's parent_id is root's span_id, nested_wrapped's *)
(* parent_id is child's span_id (not root's), and the three span_ids are    *)
(* pairwise distinct.                                                       *)
C2_ParentLinkage ==
  \A i \in DumpLines :
    LET r == console[i].records IN
      /\ \A n \in MechanismASpans : Named(r, n) # {}
      /\ Rec(r, "child").parent_id = Rec(r, "root").span_id
      /\ Rec(r, "nested_wrapped").parent_id = Rec(r, "child").span_id
      /\ Rec(r, "nested_wrapped").parent_id # Rec(r, "root").span_id
      /\ Cardinality({r[k].span_id : k \in 1..Len(r)}) = Len(r)

C2_Witness ==
  /\ fpc = "done"
  /\ Len(span_records) = 3
  /\ id_gen.prefix = 1
  /\ Rec(span_records, "nested_wrapped").parent_id = Rec(span_records, "child").span_id
  /\ nreq = 2

(* C3: every span entered via Mechanism A, the #[trace]-annotated           *)
(* func_with_trace included, has exactly one record in the dump, whose      *)
(* parent_id is the id of the span current at its entry (the context's      *)
(* span id for root).                                                       *)
C3_AnnotatedSpanRecorded ==
  \A i \in DumpLines :
    LET r == console[i].records IN
      /\ \A n \in MechanismASpans \cup {"func_with_trace"} :
            Cardinality(Named(r, n)) = 1
      /\ Rec(r, "root").parent_id = SpanId(CtxSpanId)
      /\ Rec(r, "func_with_trace").parent_id = Rec(r, "root").span_id
      /\ Rec(r, "child").parent_id = Rec(r, "func_with_trace").span_id
      /\ Rec(r, "nested_wrapped").parent_id = Rec(r, "child").span_id

----------------------------------------------------------------------------
\* the lifecycle's edges; a new fetch starts new spans at Pending
LifecycleEdges ==
  { <<"Pending", "Entered">>, <<"Entered", "Exited">>,
    <<"Exited", "Recorded">>, <<"Exited", "Dropped">> }

LifecycleStep ==
  \A n \in SpanNames :
    \/ phase'[n] = phase[n]
    \/ << phase[n], phase'[n] >> \in LifecycleEdges
    \/ nreq' # nreq /\ phase'[n] = "Pending"

LifecycleEnds ==
  /\ fpc = "done" => \A n \in SpanNames : phase[n] \in {"Recorded", "Dropped"}
  /\ \A n \in SpanNames :
       phase[n] = "Recorded" =>
         /\ n \in MechanismASpans
         /\ \E k \in 1..Len(local_spans) :
              local_spans[k].name = n /\ local_spans[k].ended
  /\ phase["in_span_async"] # "Recorded"
  /\ Converted => phase["in_span_async"] = "Dropped"

\* nothing but the three lifecycle markers is logged and every response is Ok
SilentDrop ==
  /\ \A i \in 1..Len(console) :
       console[i].text \in {"started", "flushing in background", "span_records"}
  /\ fpc = "done" => Len(console) = 3 * nreq
  /\ \A i \in 1..Len(responses) : responses[i].response.status = 200

(* C4: each span moves Pending -> Entered -> Exited -> Recorded or Dropped  *)
(* and ends in one of the two; Recorded only for a span entered via         *)
(* Mechanism A that had exited when collected; the Mechanism-B span         *)
(* in_span_async, once entered, always ends Dropped, with no log line and   *)
(* no error for the drop.                                                   *)
C4_SpanLifecycle ==
  /\ [][LifecycleStep]_vars
  /\ [](LifecycleEnds /\ SilentDrop)
  /\ \A n \in SpanNames :
       (phase[n] = "Entered") ~> (phase[n] \in {"Recorded", "Dropped"})
  /\ (phase["in_span_async"] = "Entered") ~> (phase["in_span_async"] = "Dropped")

C4_Witness ==
  /\ fpc = "done"
  /\ phase["in_span_async"] = "Dropped"
  /\ phase["child"] = "Recorded"
  /\ nreq = 2

----------------------------------------------------------------------------
(* C5: collect() drains: the first collect returns the spans accumulated    *)
(* since start(), a collect applied again to the same context right after   *)
(* it returns nothing, and no span is returned by two collects.             *)
C5_CollectDrains ==
  /\ collector_at = "consumed" =>
       /\ Len(local_spans) = Cardinality(MechanismASpans)
       /\ \A k \in 1..Len(local_spans) : local_spans[k].name \in MechanismASpans
       /\ Collect(span_stack, collector).spans = << >>
       /\ span_stack.span_lines = << >>
  /\ \A i, j \in DumpLines :
       i # j =>
         {console[i].records[k].span_id : k \in 1..Len(console[i].records)}
           \cap {console[j].records[k].span_id : k \in 1..Len(console[j].records)}
         = {}

C5_Witness ==
  /\ collector_at = "consumed"
  /\ fpc = "convert"
  /\ Len(local_spans) = 3
  /\ Cardinality(DumpLines) = 1

----------------------------------------------------------------------------
\* the spans of this request that had a span current at entry
HadParent(k) == local_spans[k].parent_id # DefaultSpanId

(* C6 as stated: every record has trace_id TraceId(1); a span with no span  *)
(* current at entry (only root) has parent_id SpanId(1); no span that had a *)
(* current parent at entry has parent_id SpanId(1).                         *)
C6_Original ==
  Converted =>
    /\ Len(span_records) = Len(local_spans)
    /\ \A k \in 1..Len(span_records) :
         /\ span_records[k].trace_id = CtxTraceId
         /\ ~HadParent(k) => span_records[k].parent_id = SpanId(CtxSpanId)
         /\ HadParent(k) => span_records[k].parent_id # SpanId(CtxSpanId)
    /\ {span_records[k].name : k \in {j \in 1..Len(span_records) : ~HadParent(j)}}
         = {"root"}

(* C6 amended: every record has trace_id TraceId(1); a span with no span    *)
(* current at entry (only root) has parent_id SpanId(1); a span that had a  *)
(* current parent at entry keeps that parent's span_id as its parent_id,    *)
(* the context's span id is never put in its place.                         *)
C6_ContextApplied ==
  Converted =>
    /\ Len(span_records) = Len(local_spans)
    /\ \A k \in 1..Len(span_records) :
         /\ span_records[k].trace_id = CtxTraceId
         /\ ~HadParent(k) => span_records[k].parent_id = SpanId(CtxSpanId)
         /\ HadParent(k) =>
              /\ span_records[k].parent_id = local_spans[k].parent_id
              /\ \E j \in 1..Len(span_records) :
                   j # k /\ span_records[j].span_id = span_records[k].parent_id
    /\ {span_records[k].name : k \in {j \in 1..Len(span_records) : ~HadParent(j)}}
         = {"root"}

C6_Witness ==
  /\ Converted
  /\ Len(span_records) = 3
  /\ Rec(span_records, "root").parent_id = SpanId(CtxSpanId)
  /\ Rec(span_records, "child").parent_id # SpanId(CtxSpanId)

----------------------------------------------------------------------------
\* the three log lines of one request, in order
RequestLog == << "started", "flushing in background", "span_records" >>

LogInOrder ==
  \A i \in 1..Len(console) : console[i].text = RequestLog[((i - 1) % 3) + 1]

\* a line of the flush task is on the console only once main has returned
FlushAfterResponse ==
  \A k \in 1..MaxRequests :
    Len(console) >= 3 * (k - 1) + 2 => Len(responses) >= k

(* C7: the flush task runs only after the handler has produced its          *)
(* response and, once registered, runs to completion: each request logs     *)
(* "started", "flushing in background" and one "span_records" line, in      *)
(* that order.                                                              *)
C7_FlushRunsAfterResponse ==
  /\ [](LogInOrder /\ FlushAfterResponse)
  /\ \A k \in 1..MaxRequests :
       (Len(responses) = k /\ Len(console) < 3 * k)
         ~> (Len(console) = 3 * k /\ fpc = "done")

C7_Witness ==
  /\ Len(console) = 6
  /\ Len(responses) = 2
  /\ fpc = "done"
  /\ console[6].text = "span_records"
  /\ Len(console[6].records) = 3

----------------------------------------------------------------------------
\* no guard or span is alive, nothing is entered or exited
NoSpanActivity ==
  /\ held' = held
  /\ id_gen' = id_gen
  /\ \A n \in SpanNames : phase[n] = "Entered" => phase'[n] = "Entered"

Confined ==
  /\ collector_at \in {"closure", "consumed"} =>
       \A n \in SpanNames : held[n] = None /\ phase[n] # "Entered"
  /\ collector_at = "main" => fpc = "idle"
  /\ fpc \notin {"idle", Head(FlushOrder)} => pc = "done"
  /\ collector_at = "consumed" =>
       \A k \in 1..Len(local_spans) : local_spans[k].ended
  /\ collects <= 1
  /\ fpc = "done" => collects = 1

(* C8: the collector is used by the handler from start() to the handoff to  *)
(* ctx.wait_until and by the flush task afterwards; no span is entered or   *)
(* exited after the handoff, every entered span has exited when collect()   *)
(* runs, and collect() runs exactly once per request.                       *)
C8_CollectorConfined ==
  /\ []Confined
  /\ [][(collector_at \in {"closure", "consumed"} /\ nreq' = nreq)
          => NoSpanActivity]_vars

C8_Witness ==
  /\ collector_at = "consumed"
  /\ collects = 1
  /\ fpc = "done"
  /\ Len(local_spans) = 3
  /\ nreq = 3

----------------------------------------------------------------------------
\* every response produced so far is Ok with the fixed body
AllResponsesOk ==
  \A i \in 1..Len(responses) :
    responses[i].response = [status |-> 200, body |-> "Hello, World!"]

----------------------------------------------------------------------------
\* console lines written by the panic hook
PanicLines == {i \in 1..Len(console) : console[i].text = "panic"}

====
